---------------------------- MODULE Spec2Model ----------------------------
(***************************************************************************)
(* A state-machine model of retryhttp's Client.Do (retry.go): one call of  *)
(* Do on one Request, stepped through the statements of its loop, with the *)
(* request context's cancellation as an asynchronous environment action.   *)
(*                                                                         *)
(* Durations are whole ticks.  backoffMultiplier is a float64 in the code; *)
(* here it is a number of halves (multiplier m stands for m / MultDen) and *)
(* time.Duration(float64(backoff) * m) truncates towards zero.             *)
(***************************************************************************)
EXTENDS Integers, Sequences, FiniteSets

(* ------------------------------ bounds -------------------------------- *)

\* WithMaxRetries is given a value in 0..MaxRetriesBound.
MaxRetriesBound == 2

\* Durations given to WithInitialBackoff / WithMaxBackoff are 0..MaxDuration ticks.
MaxDuration == 2

\* c.CloseIdleConnections is called at most MaxCloseCalls times.
MaxCloseCalls == 2

\* Request bodies hold at most MaxBodyLen bytes.
MaxBodyLen == 1

\* Denominator of the fixed-point multipliers handed to WithBackoffMultiplier.
MultDen == 2

\* Multipliers 0.5, 1, 1.5 and 2, in units of 1 / MultDen.
Multipliers == {1, 2, 3, 4}

Durations == 0..MaxDuration

Byte == {0, 1}

RECURSIVE SeqsUpTo(_)
SeqsUpTo(n) ==
    IF n = 0 THEN {<<>>}
    ELSE LET shorter == SeqsUpTo(n - 1)
         IN  shorter \cup {Append(s, b) : s \in {t \in shorter : Len(t) = n - 1}, b \in Byte}

BodyBytes == SeqsUpTo(MaxBodyLen)

(* ------------------------------ values -------------------------------- *)

\* error values; "nil" is Go's nil error
NilErr == "nil"
ErrMaxRetriesExceeded == "max retries exceeded"
TransportErr == "transport error"
ReadErr == "body read error"
GetBodyErr == "GetBody error"
CtxErrors == {"context canceled", "context deadline exceeded"}

\* errors.Is(e, ErrMaxRetriesExceeded): Do never wraps, so only the sentinel itself matches.
IsMaxRetriesExceeded(e) == e = ErrMaxRetriesExceeded

\* *http.Response: id 0 is the nil pointer; id n > 0 is the response of the n-th send.
NilResp == [id |-> 0, status |-> 0]
Statuses == {200, 403, 500}

\* io.ReadCloser request bodies: a byte string and a read position; nil is Go's nil body.
NilBody == [nil |-> TRUE, data |-> <<>>, pos |-> 0]
Stream(bytes) == [nil |-> FALSE, data |-> bytes, pos |-> 0]
Drained(bytes) == [nil |-> FALSE, data |-> bytes, pos |-> Len(bytes)]

(* ------------------------------ Client -------------------------------- *)

\* The upper end of the status range left out: 5xx is retried as well.
DefaultRetryConditionNoUpperEnd(r, e) ==
    IF e # NilErr THEN TRUE
    ELSE IF r # NilResp /\ r.status >= 400 THEN TRUE
    ELSE FALSE

\* DefaultRetryCondition(resp, err)
DefaultRetryCondition(r, e) ==
    IF e # NilErr THEN TRUE
    ELSE IF r # NilResp /\ r.status >= 400 /\ r.status < 500 THEN TRUE
    ELSE FALSE

\* An http.Client's Transport field: nil, an *http.Transport of the caller's, or a
\* RoundTripper of the caller's that has no CloseIdleConnections method.
Transports == {"nil", "*http.Transport", "RoundTripper"}

\* http.DefaultClient: its Transport is nil
DefaultClient == [Transport |-> "nil"]

\* transport() without its fallback to http.DefaultTransport.
transportNoFallback(cl) == cl.client.Transport

\* c.transport(): the client's Transport, or http.DefaultTransport when it is nil
transport(cl) ==
    IF cl.client.Transport # "nil" THEN cl.client.Transport ELSE "http.DefaultTransport"

\* tr.(closeIdler): http.DefaultTransport is an *http.Transport, which has the method
IsCloseIdler(tr) == tr \in {"http.DefaultTransport", "*http.Transport"}

\* The retry conditions a Client is built with: the default one, or a caller's
\* closure, whose answers are unconstrained.
Conditions == {"DefaultRetryCondition", "custom"}

\* New(opts...): the defaults are overwritten by whatever the options carry, with
\* no validation; every combination of values is a Client New can return.
New(retries, cond, initial, mult, maxB) ==
    [client |-> DefaultClient, maxRetries |-> retries, retryCondition |-> cond,
     initialBackoff |-> initial, backoffMultiplier |-> mult, maxBackoff |-> maxB]

\* WithClient(k), applied to the Client cl
WithClient(cl, k) == [cl EXCEPT !.client = k]

Clients ==
    {New(n, k, i, m, b) : n \in 0..MaxRetriesBound, k \in Conditions,
                          i \in Durations, m \in Multipliers, b \in Durations}

(* ------------------------------- state -------------------------------- *)

VARIABLES
    c,            \* the Client (receiver of Do)
    req,          \* the Request: [Body, GetBody]; GetBody is "nil", the "caller"'s
                  \* function, or the "buffered" closure Do installs
    ctxErr,       \* ctx.Err(): NilErr until the context is cancelled
    pc,           \* position of Do
    attempt,      \* loop counter
    backoff,      \* current backoff
    resp, err,    \* Do's locals
    bodyBytes,    \* bytes captured by io.ReadAll
    ret,          \* what Do returned: [resp, err]
    exit,         \* which return statement ended Do
    origBody,     \* the bytes of the body the caller passed in
    buffered,     \* Do buffered the body (Body non-nil and GetBody nil on entry)
    sends,        \* number of c.client.Do calls started
    lastOutcome,  \* (resp, err) of the last completed send, as the transport gave it
    condCalls,    \* number of retryCondition evaluations
    condTrue,     \* number of those that answered true
    closed,       \* closed[n]: Do closed the body of the n-th send's response
    waits,        \* the durations handed to time.After, in order
    getBodyCalls, \* number of req.GetBody() invocations
    peer,         \* a second call of Do on the same Client, by another goroutine:
                  \* its position and its locals attempt and backoff, with the
                  \* sends it made and the waits it began
    idle,         \* [calls, delegated]: the calls of c.CloseIdleConnections, and the
                  \* transports whose CloseIdleConnections they called, in order
    cancelPc      \* where Do was when the context was cancelled

vars == <<c, req, ctxErr, pc, attempt, backoff, resp, err, bodyBytes, ret, exit,
          origBody, buffered, sends, lastOutcome, condCalls, condTrue, closed,
          waits, getBodyCalls, peer, idle, cancelPc>>

Requests ==
    {[Body |-> b, GetBody |-> g] :
        b \in {NilBody} \cup {Stream(s) : s \in BodyBytes}, g \in {"nil", "caller"}}

\* A Client whose backoff settings are the ones of the repository's tests
\* (initial backoff 1 tick, multiplier 2, ceiling above the initial backoff).
ReferenceBackoff(cl) ==
    cl.initialBackoff = 1 /\ cl.backoffMultiplier = 2 * MultDen /\ cl.maxBackoff = MaxDuration

\* http.NewRequest("GET", url, nil): no body, no GetBody
PlainRequest == [Body |-> NilBody, GetBody |-> "nil"]

\* No second call on the Client.
NoPeer == [pc |-> "none", attempt |-> 0, backoff |-> 0, sends |-> 0, waits |-> <<>>]

\* A second call on the Client that is about to begin.
PeerCalled == [NoPeer EXCEPT !.pc = "start"]

\* The calls explored: every Client on a plain request, and every Request on the
\* Clients with the reference backoff.  Do's backoff arithmetic reads only the
\* Client and its body handling only the Request.
Calls ==
    {call \in Clients \X Requests : call[2] = PlainRequest \/ ReferenceBackoff(call[1])}

Init ==
    /\ \E call \in Calls : c = call[1] /\ req = call[2]
    /\ ctxErr \in {NilErr} \cup CtxErrors
    /\ pc = "start"
    /\ attempt = 0
    /\ backoff = 0
    /\ resp = NilResp
    /\ err = NilErr
    /\ bodyBytes = <<>>
    /\ ret = [resp |-> NilResp, err |-> NilErr]
    /\ exit = "none"
    /\ origBody = req.Body
    /\ buffered = FALSE
    /\ sends = 0
    /\ lastOutcome = [resp |-> NilResp, err |-> NilErr]
    /\ condCalls = 0
    /\ condTrue = 0
    /\ closed = <<>>
    /\ waits = <<>>
    /\ getBodyCalls = 0
    /\ peer = NoPeer
    /\ idle = [calls |-> 0, delegated |-> <<>>]
    /\ cancelPc = IF ctxErr = NilErr THEN "none" ELSE "precall"


(* --------------------- the statements of Client.Do -------------------- *)

\* return r, e: Do ends at the return statement named how.
Return(r, e, how) ==
    /\ pc' = "done"
    /\ ret' = [resp |-> r, err |-> e]
    /\ exit' = how

\* line 127: the body has to be buffered
NeedsBuffering == ~req.Body.nil /\ req.GetBody = "nil"

\* io.ReadAll(req.Body): the bytes not yet read
ReadAll(body) == SubSeq(body.data, body.pos + 1, Len(body.data))

\* "return nil, err" in place of "return nil, readErr": the outer err is still nil.
ReadFailureResultOuterErr == [resp |-> NilResp, err |-> err]

\* lines 129-131: what Do returns when io.ReadAll fails
ReadFailureResult == [resp |-> NilResp, err |-> ReadErr]

\* Line 137 left out: the request keeps the body io.ReadAll has drained.
FirstBodyDrained(bytes) == Drained(bytes)

\* line 137: the body installed for the first attempt
FirstBody(bytes) == Stream(bytes)

\* req.GetBody(): the closure of lines 133-135 over bodyBytes, or the caller's
\* function, which hands out the caller's bytes again
GetBody == IF req.GetBody = "buffered" THEN Stream(bodyBytes) ELSE Stream(origBody.data)

\* Only a caller's GetBody can fail; the closure of lines 133-135 returns a nil error.
GetBodyCanFail == req.GetBody = "caller"

\* The loop running one iteration too many.
LoopCondOneMore == attempt <= c.maxRetries + 1

\* The loop counting maxRetries as the number of attempts.
LoopCondOneLess == attempt < c.maxRetries

\* line 142: the loop condition
LoopCond == attempt <= c.maxRetries

\* The check before the attempt made on retries only.
CancelledBeforeRetriesOnly == attempt > 0 /\ ctxErr # NilErr

\* The check before the attempt made once, ahead of the loop.
CancelledBeforeFirstOnly == attempt = 0 /\ ctxErr # NilErr

\* line 144: ctx.Err() != nil, before the attempt
CancelledBefore == ctxErr # NilErr

\* The body re-armed from the second retry on only.
NeedsReplayLate == attempt > 1 /\ ~req.Body.nil /\ req.GetBody # "nil"

\* line 149: the body is re-armed for a retry
NeedsReplay == attempt > 0 /\ ~req.Body.nil /\ req.GetBody # "nil"

\* The check after the attempt left out.
CancelledAfterNever == FALSE

\* line 160: ctx.Err() != nil, after the attempt
CancelledAfter == ctxErr # NilErr

\* "return resp, ctx.Err()": the response of the attempt handed back with the error.
CancelledResultKeepsResp == [resp |-> resp, err |-> ctxErr]

\* line 161: what Do returns when the context is done after the attempt
CancelledResult == [resp |-> NilResp, err |-> ctxErr]

\* line 165: c.retryCondition(resp, err); a caller's closure may answer anything
ConditionAnswers ==
    IF c.retryCondition = "DefaultRetryCondition"
    THEN {DefaultRetryCondition(resp, err)}
    ELSE BOOLEAN

\* The final outcome returned without its response.
FinalResultNoResp == [resp |-> NilResp, err |-> err]

\* line 166: the non-retryable outcome is returned as it is
FinalResult == [resp |-> resp, err |-> err]

\* Lines 170-172 left out: the discarded response is not closed.
CloseBodySkipped == closed

\* lines 170-172: resp.Body.Close() on a non-nil response
CloseBody == IF resp # NilResp THEN [closed EXCEPT ![resp.id] = TRUE] ELSE closed

\* Lines 178-180 left out: the backoff grows without a ceiling.
NextBackoffUncapped(b) == (b * c.backoffMultiplier) \div MultDen

\* The float64 product rounded up to the next whole nanosecond.
NextBackoffRoundsUp(b) ==
    LET grown == (b * c.backoffMultiplier + MultDen - 1) \div MultDen
    IN  IF grown > c.maxBackoff THEN c.maxBackoff ELSE grown

\* lines 177-180: the next backoff; the float64 product truncates towards zero
NextBackoff(b) ==
    LET grown == (b * c.backoffMultiplier) \div MultDen
    IN  IF grown > c.maxBackoff THEN c.maxBackoff ELSE grown

\* The grown backoff written back to the Client's initialBackoff field.
ClientAfterWaitStoresBackoff(b) == [c EXCEPT !.initialBackoff = b]

\* lines 175-180: the grown backoff b is assigned to Do's local variable; no field
\* of the Client is assigned there, nor anywhere else in Do
ClientAfterWait(b) == c

\* Lines 186-188 left out: the last error is returned as it is, nil included.
ExhaustedErrRaw == err

\* lines 186-188: the error returned once the loop has run out
ExhaustedErr == IF err = NilErr THEN ErrMaxRetriesExceeded ELSE err

\* What c.client.Do can hand back for the send numbered n: a response alone, an
\* error alone, or (when CheckRedirect fails) a response together with an error.
Outcomes(n) ==
    {[resp |-> [id |-> n, status |-> s], err |-> NilErr] : s \in Statuses}
        \cup {[resp |-> NilResp, err |-> TransportErr]}
        \cup {[resp |-> [id |-> n, status |-> 302], err |-> TransportErr]}

\* what no statement of Do writes
config == <<c, origBody, peer, idle>>
locals == <<attempt, backoff, resp, err, bodyBytes>>
observed == <<sends, lastOutcome, condCalls, condTrue, closed, waits, getBodyCalls>>

\* lines 122-140: buffer the body when it cannot be replayed, then arm the backoff
Buffer ==
    /\ pc = "start"
    /\ IF NeedsBuffering
       THEN \E readOk \in BOOLEAN :
               IF readOk
               THEN /\ bodyBytes' = ReadAll(req.Body)
                    /\ req' = [Body |-> FirstBody(bodyBytes'), GetBody |-> "buffered"]
                    /\ buffered' = TRUE
                    /\ backoff' = c.initialBackoff
                    /\ pc' = "loop"
                    /\ UNCHANGED <<ret, exit>>
               ELSE /\ Return(ReadFailureResult.resp, ReadFailureResult.err, "buffer")
                    /\ UNCHANGED <<req, bodyBytes, buffered, backoff>>
       ELSE /\ backoff' = c.initialBackoff
            /\ pc' = "loop"
            /\ UNCHANGED <<req, bodyBytes, buffered, ret, exit>>
    /\ UNCHANGED <<config, ctxErr, attempt, resp, err, observed, cancelPc>>

\* line 142 false, then lines 186-189
LoopExit ==
    /\ pc = "loop"
    /\ ~LoopCond
    /\ Return(resp, ExhaustedErr, "exhausted")
    /\ UNCHANGED <<config, req, ctxErr, locals, buffered, observed, cancelPc>>

\* line 142 true, then lines 144-146
CheckBefore ==
    /\ pc = "loop"
    /\ LoopCond
    /\ IF CancelledBefore
       THEN Return(NilResp, ctxErr, "cancelBefore")
       ELSE pc' = "replay" /\ UNCHANGED <<ret, exit>>
    /\ UNCHANGED <<config, req, ctxErr, locals, buffered, observed, cancelPc>>

\* lines 149-157: re-arm the body on a retry, then hand the request to c.client.Do
Send ==
    /\ pc = "replay"
    /\ IF NeedsReplay
       THEN /\ getBodyCalls' = getBodyCalls + 1
            /\ \E getOk \in (IF GetBodyCanFail THEN BOOLEAN ELSE {TRUE}) :
                  IF getOk
                  THEN /\ req' = [req EXCEPT !.Body = GetBody]
                       /\ sends' = sends + 1
                       /\ pc' = "inflight"
                       /\ UNCHANGED <<ret, exit>>
                  ELSE /\ Return(NilResp, GetBodyErr, "replay")
                       /\ UNCHANGED <<req, sends>>
       ELSE /\ sends' = sends + 1
            /\ pc' = "inflight"
            /\ UNCHANGED <<req, ret, exit, getBodyCalls>>
    /\ UNCHANGED <<config, ctxErr, locals, buffered, lastOutcome, condCalls,
                   condTrue, closed, waits, cancelPc>>

\* line 157: c.client.Do returns; the transport has read some of the body
SendReturn ==
    /\ pc = "inflight"
    /\ \E o \in Outcomes(sends) :
          /\ resp' = o.resp
          /\ err' = o.err
          /\ lastOutcome' = o
    /\ closed' = Append(closed, FALSE)
    /\ IF req.Body.nil
       THEN UNCHANGED req
       ELSE \E n \in req.Body.pos..Len(req.Body.data) :
               req' = [req EXCEPT !.Body.pos = n]
    /\ pc' = "check2"
    /\ UNCHANGED <<config, ctxErr, attempt, backoff, bodyBytes, ret, exit, buffered,
                   sends, condCalls, condTrue, waits, getBodyCalls, cancelPc>>

\* lines 160-162
CheckAfter ==
    /\ pc = "check2"
    /\ IF CancelledAfter
       THEN Return(CancelledResult.resp, CancelledResult.err, "cancelAfter")
       ELSE pc' = "cond" /\ UNCHANGED <<ret, exit>>
    /\ UNCHANGED <<config, req, ctxErr, locals, buffered, observed, cancelPc>>

\* lines 165-175: ask the retry condition; return, or close the body and start the wait
Decide ==
    /\ pc = "cond"
    /\ \E retry \in ConditionAnswers :
          /\ condCalls' = condCalls + 1
          /\ IF retry
             THEN /\ condTrue' = condTrue + 1
                  /\ closed' = CloseBody
                  /\ waits' = Append(waits, backoff)
                  /\ pc' = "wait"
                  /\ UNCHANGED <<ret, exit>>
             ELSE /\ Return(FinalResult.resp, FinalResult.err, "final")
                  /\ UNCHANGED <<condTrue, closed, waits>>
    /\ UNCHANGED <<config, req, ctxErr, locals, buffered, sends, lastOutcome,
                   getBodyCalls, cancelPc>>

\* lines 176-180 and the loop's attempt++: the timer fired.  When the context is
\* done as well, select takes either ready case.
WaitTimer ==
    /\ pc = "wait"
    /\ backoff' = NextBackoff(backoff)
    /\ c' = ClientAfterWait(backoff')
    /\ attempt' = attempt + 1
    /\ pc' = "loop"
    /\ UNCHANGED <<origBody, idle, peer, req, ctxErr, resp, err, bodyBytes, ret, exit, buffered,
                   observed, cancelPc>>

\* lines 181-182: ctx.Done() was ready
WaitCancel ==
    /\ pc = "wait"
    /\ ctxErr # NilErr
    /\ Return(NilResp, ctxErr, "cancelWait")
    /\ UNCHANGED <<config, req, ctxErr, locals, buffered, observed, cancelPc>>

\* The caller cancels the request's context, or its deadline passes, while Do runs.
Cancel ==
    /\ pc # "done"
    /\ ctxErr = NilErr
    /\ ctxErr' \in CtxErrors
    /\ cancelPc' = pc
    /\ UNCHANGED <<config, req, pc, locals, ret, exit, buffered, observed>>

Next ==
    \/ Buffer
    \/ LoopExit
    \/ CheckBefore
    \/ Send
    \/ SendReturn
    \/ CheckAfter
    \/ Decide
    \/ WaitTimer
    \/ WaitCancel
    \/ Cancel

Spec == Init /\ [][Next]_vars

\* The statements of Do, which its goroutine keeps executing: a send that is
\* under way returns, and the timer of a wait fires.
DoStep ==
    \/ Buffer
    \/ LoopExit
    \/ CheckBefore
    \/ Send
    \/ SendReturn
    \/ CheckAfter
    \/ Decide
    \/ WaitTimer

\* Do under a scheduler that runs its goroutine, a transport whose sends return
\* and a runtime whose timers fire; the caller is free to cancel or not.
SpecFair == Init /\ [][Next]_vars /\ WF_vars(DoStep)

(* ------------- a second call of Do on the same Client ------------- *)

\* The other goroutine's call, with a request of its own that has no body and a
\* context that is never done; its steps are those of Do, one per suspension.

\* lines 126-140: no body to buffer; backoff := c.initialBackoff
PeerBegin ==
    /\ peer.pc = "start"
    /\ peer' = [peer EXCEPT !.pc = "loop", !.backoff = c.initialBackoff]
    /\ UNCHANGED <<c, req, ctxErr, pc, locals, ret, exit, origBody, buffered, observed,
                   idle, cancelPc>>

\* lines 142-172: one attempt and the retry condition's answer to its outcome
PeerAttempt ==
    /\ peer.pc = "loop"
    /\ peer.attempt <= c.maxRetries
    /\ \E retry \in BOOLEAN :
          peer' = IF retry
                  THEN [peer EXCEPT !.pc = "wait", !.sends = @ + 1,
                                    !.waits = Append(@, peer.backoff)]
                  ELSE [peer EXCEPT !.pc = "done", !.sends = @ + 1]
    /\ UNCHANGED <<c, req, ctxErr, pc, locals, ret, exit, origBody, buffered, observed,
                   idle, cancelPc>>

\* lines 175-180 and attempt++: the timer fired
PeerTimer ==
    /\ peer.pc = "wait"
    /\ peer' = [peer EXCEPT !.pc = "loop", !.attempt = @ + 1,
                            !.backoff = NextBackoff(peer.backoff)]
    /\ c' = ClientAfterWait(peer'.backoff)
    /\ UNCHANGED <<req, ctxErr, pc, locals, ret, exit, origBody, buffered, observed,
                   idle, cancelPc>>

\* line 142 false, then lines 186-189
PeerExit ==
    /\ peer.pc = "loop"
    /\ peer.attempt > c.maxRetries
    /\ peer' = [peer EXCEPT !.pc = "done"]
    /\ UNCHANGED <<c, req, ctxErr, pc, locals, ret, exit, origBody, buffered, observed,
                   idle, cancelPc>>

\* Two calls on one Client, each with a request of its own.  The retry condition
\* is a caller's closure, whose answers include those of the default one.
InitShared ==
    /\ c \in {cl \in Clients : cl.retryCondition = "custom"}
    /\ req = PlainRequest
    /\ ctxErr = NilErr
    /\ pc = "start"
    /\ attempt = 0
    /\ backoff = 0
    /\ resp = NilResp
    /\ err = NilErr
    /\ bodyBytes = <<>>
    /\ ret = [resp |-> NilResp, err |-> NilErr]
    /\ exit = "none"
    /\ origBody = req.Body
    /\ buffered = FALSE
    /\ sends = 0
    /\ lastOutcome = [resp |-> NilResp, err |-> NilErr]
    /\ condCalls = 0
    /\ condTrue = 0
    /\ closed = <<>>
    /\ waits = <<>>
    /\ getBodyCalls = 0
    /\ peer = PeerCalled
    /\ idle = [calls |-> 0, delegated |-> <<>>]
    /\ cancelPc = "none"

NextShared ==
    \/ Next
    \/ PeerBegin
    \/ PeerAttempt
    \/ PeerTimer
    \/ PeerExit

SpecShared == InitShared /\ [][NextShared]_vars

\* lines 204-211: Client.CloseIdleConnections
CloseIdleConnections ==
    /\ idle.calls < MaxCloseCalls
    /\ idle' = [calls |-> idle.calls + 1,
                delegated |-> IF IsCloseIdler(transport(c))
                              THEN Append(idle.delegated, transport(c))
                              ELSE idle.delegated]
    /\ UNCHANGED <<c, req, ctxErr, pc, locals, ret, exit, origBody, buffered, sends,
                   lastOutcome, condCalls, condTrue, closed, waits, getBodyCalls, peer,
                   cancelPc>>

\* Any Client New can build, WithClient included, and no call of Do under way.
InitIdle ==
    /\ c \in {WithClient(cl, [Transport |-> tr]) : cl \in Clients, tr \in Transports}
    /\ req = PlainRequest
    /\ ctxErr = NilErr
    /\ pc = "start"
    /\ attempt = 0
    /\ backoff = 0
    /\ resp = NilResp
    /\ err = NilErr
    /\ bodyBytes = <<>>
    /\ ret = [resp |-> NilResp, err |-> NilErr]
    /\ exit = "none"
    /\ origBody = req.Body
    /\ buffered = FALSE
    /\ sends = 0
    /\ lastOutcome = [resp |-> NilResp, err |-> NilErr]
    /\ condCalls = 0
    /\ condTrue = 0
    /\ closed = <<>>
    /\ waits = <<>>
    /\ getBodyCalls = 0
    /\ peer = NoPeer
    /\ idle = [calls |-> 0, delegated |-> <<>>]
    /\ cancelPc = "none"

\* Calls of CloseIdleConnections on such a Client.
SpecIdle == InitIdle /\ [][CloseIdleConnections]_vars

\* Status codes around the ends of every class, for DefaultRetryCondition.
ConditionStatuses ==
    {100, 199, 200, 204, 299, 300, 302, 399, 400, 401, 403, 404, 429, 499, 500, 502, 503, 599}

\* Do at line 165 of its first attempt, with any (resp, err) pair in its locals,
\* (nil, nil) and both non-nil included, on a Client with DefaultRetryCondition.
InitCondition ==
    /\ c \in {cl \in Clients : cl.retryCondition = "DefaultRetryCondition" /\ ReferenceBackoff(cl)}
    /\ req = PlainRequest
    /\ ctxErr = NilErr
    /\ pc = "cond"
    /\ attempt = 0
    /\ backoff = c.initialBackoff
    /\ resp \in {NilResp} \cup {[id |-> 1, status |-> s] : s \in ConditionStatuses}
    /\ err \in {NilErr, TransportErr}
    /\ bodyBytes = <<>>
    /\ ret = [resp |-> NilResp, err |-> NilErr]
    /\ exit = "none"
    /\ origBody = req.Body
    /\ buffered = FALSE
    /\ sends = 1
    /\ lastOutcome = [resp |-> resp, err |-> err]
    /\ condCalls = 0
    /\ condTrue = 0
    /\ closed = <<FALSE>>
    /\ waits = <<>>
    /\ getBodyCalls = 0
    /\ peer = NoPeer
    /\ idle = [calls |-> 0, delegated |-> <<>>]
    /\ cancelPc = "none"

\* DefaultRetryCondition applied once to each pair, by line 165.
SpecCondition == InitCondition /\ [][Decide]_vars

TypeOK ==
    /\ c \in Clients
    /\ pc \in {"start", "loop", "replay", "inflight", "check2", "cond", "wait", "done"}
    /\ attempt \in 0..(MaxRetriesBound + 1)
    /\ sends \in 0..(MaxRetriesBound + 1)


(* ------------------------------ the claims ---------------------------- *)

NilResult(e) == [resp |-> NilResp, err |-> e]

\* C1: when the retry condition answers true for the outcomes of attempts 1..N
\* and false for the outcome of attempt N+1 (N <= maxRetries), Do has made
\* exactly N+1 transport sends and returns attempt N+1's (response, error) pair
\* as the transport gave it.
C1_FinalAfterNRetries ==
    (pc = "done" /\ condCalls = condTrue + 1)
        => /\ condTrue <= c.maxRetries
           /\ sends = condTrue + 1
           /\ ret = lastOutcome

\* 403, 403, 200: 200 with a nil error after exactly three sends.
C1_Witness ==
    /\ pc = "done"
    /\ condTrue = 2
    /\ condCalls = 3
    /\ sends = 3
    /\ ret.resp.status = 200
    /\ ret.err = NilErr

\* C2: when Do reaches its loop, is never cancelled, every attempt it begins
\* completes with a response and a nil error, and the retry condition flags each
\* of them, Do makes exactly maxRetries+1 sends and returns the last response
\* together with ErrMaxRetriesExceeded.
C2_AlwaysRetryableExhausts ==
    (/\ pc = "done"
     /\ cancelPc = "none"
     /\ exit \notin {"buffer", "replay"}
     /\ condTrue = condCalls
     /\ lastOutcome.err = NilErr)
        => /\ sends = c.maxRetries + 1
           /\ ret.err = ErrMaxRetriesExceeded
           /\ ret.resp = lastOutcome.resp
           /\ ret.resp # NilResp

\* always 403 with maxRetries = 2: the sentinel with the last 403 after three sends.
C2_Witness ==
    /\ pc = "done"
    /\ cancelPc = "none"
    /\ c.maxRetries = 2
    /\ c.retryCondition = "DefaultRetryCondition"
    /\ sends = 3
    /\ ret.err = ErrMaxRetriesExceeded
    /\ ret.resp = [id |-> 3, status |-> 403]

\* C3: the number of transport sends never exceeds maxRetries+1, whatever the
\* retry condition answers and whatever the transport returns.
C3_SendsWithinBudget == sends <= c.maxRetries + 1

\* maxRetries = 0 and the condition asked for a retry: still one send only.
C3_Witness ==
    /\ pc = "done"
    /\ c.maxRetries = 0
    /\ condTrue = 1
    /\ sends = 1

\* C4 as stated: when the context is already cancelled at the call, Do makes no
\* send and returns a nil response with the context's error, for every request.
C4_AlreadyCancelled ==
    (pc = "done" /\ cancelPc = "precall") => (sends = 0 /\ ret = NilResult(ctxErr))

\* C4 amended: the same, for every request whose body, when it has to be
\* buffered, is read without error; a failed read returns the read error first.
C4_AlreadyCancelledBodyRead ==
    /\ (pc = "done" /\ cancelPc = "precall" /\ exit # "buffer")
          => (sends = 0 /\ ret = NilResult(ctxErr))
    /\ (pc = "done" /\ cancelPc = "precall" /\ exit = "buffer")
          => (sends = 0 /\ ret = NilResult(ReadErr))

\* already cancelled, with a body that Do buffered before it looked at the context
C4_Witness ==
    /\ pc = "done"
    /\ cancelPc = "precall"
    /\ buffered
    /\ Len(bodyBytes) > 0
    /\ sends = 0
    /\ ret = NilResult(ctxErr)

\* C5: once the context has been cancelled before the call, during an attempt
\* or during a backoff wait (anywhere but between the check of line 144 and the
\* send it guards), Do starts no further transport send, whichever case of the
\* select was taken.
C5_NoSendAfterCancel ==
    [][(ctxErr # NilErr /\ cancelPc # "replay") => sends' = sends]_vars

\* cancelled during a wait, the timer case taken, and the next check stopped Do
C5_Witness ==
    /\ pc = "done"
    /\ cancelPc = "wait"
    /\ exit = "cancelBefore"
    /\ sends = 1

\* C6: when the context is cancelled by the time an attempt completes, Do
\* returns a nil response with the context's error, whatever the attempt's
\* outcome, and the retry condition is not evaluated on that outcome.
C6_CancelledAttemptDiscarded ==
    (pc = "done" /\ cancelPc \in {"inflight", "check2"})
        => /\ ret = NilResult(ctxErr)
           /\ condCalls = sends - 1

\* the deadline passed during a send that came back with a 200
C6_Witness ==
    /\ pc = "done"
    /\ cancelPc = "inflight"
    /\ lastOutcome.resp.status = 200
    /\ lastOutcome.err = NilErr
    /\ ret = NilResult("context deadline exceeded")

\* C7: when the context is cancelled during a backoff wait, Do ends with a nil
\* response and the context's error, and with no other result.
C7_CancelDuringWait ==
    (pc = "done" /\ cancelPc = "wait") => ret = NilResult(ctxErr)

\* C8: for a body Do buffered, the body handed to the transport on every
\* attempt is an unread stream holding exactly the bytes the caller passed in.
C8_BufferedBodyReplayed ==
    (buffered /\ pc = "inflight") => req.Body = Stream(origBody.data)

\* a retry of a request with a non-empty buffered body
C8_Witness ==
    /\ buffered
    /\ pc = "inflight"
    /\ sends = 2
    /\ Len(origBody.data) > 0
    /\ req.Body = Stream(origBody.data)

\* C9: ErrMaxRetriesExceeded is returned only when all maxRetries+1 sends were
\* made, every attempt was flagged retryable and Do saw no cancellation; and it
\* comes with the last attempt's response.
C9_SentinelOnlyWhenExhausted ==
    (pc = "done" /\ ret.err = ErrMaxRetriesExceeded)
        => /\ sends = c.maxRetries + 1
           /\ condCalls = sends
           /\ condTrue = sends
           /\ exit = "exhausted"
           /\ ret.resp = lastOutcome.resp

\* the sentinel together with a response
C9_Witness ==
    /\ pc = "done"
    /\ ret.err = ErrMaxRetriesExceeded
    /\ ret.resp # NilResp
    /\ c.retryCondition = "custom"
    /\ c.maxRetries = 1

\* C10: when the budget is exhausted and the last attempt failed with a
\* transport error, the error Do returns is, or wraps, ErrMaxRetriesExceeded.
C10_ExhaustedTransportErrorCarriesSentinel ==
    (pc = "done" /\ exit = "exhausted" /\ lastOutcome.err # NilErr)
        => IsMaxRetriesExceeded(ret.err)

\* C11: the body of a response Do returns with a nil error or with
\* ErrMaxRetriesExceeded has not been closed by Do.
C11_ReturnedBodyNotClosed ==
    (pc = "done" /\ ret.resp # NilResp /\ ret.err \in {NilErr, ErrMaxRetriesExceeded})
        => ~closed[ret.resp.id]

\* C12: with backoffMultiplier >= 1 and maxBackoff >= initialBackoff >= 0 the
\* waits of one call never decrease and never exceed maxBackoff.
C12_WaitsMonotoneAndCapped ==
    (c.backoffMultiplier >= MultDen /\ c.maxBackoff >= c.initialBackoff)
        => \A i \in 1..Len(waits) :
              /\ waits[i] <= c.maxBackoff
              /\ i > 1 => waits[i - 1] <= waits[i]

\* three waits that grow and then sit at the ceiling: 1, 2, 2
C12_Witness ==
    /\ Len(waits) = 3
    /\ waits[1] < waits[2]
    /\ waits[2] = c.maxBackoff
    /\ waits[3] = c.maxBackoff
    /\ c.backoffMultiplier > MultDen

\* C13: for every Client New can build, no wait of Do, the first one included,
\* is longer than maxBackoff.
C13_NoWaitAboveCeiling ==
    \A i \in 1..Len(waits) : waits[i] <= c.maxBackoff

\* C14: every Client New returns has backoffMultiplier >= 1 and
\* maxBackoff >= initialBackoff.
C14_ClientValidated ==
    c.backoffMultiplier >= MultDen /\ c.maxBackoff >= c.initialBackoff

\* C16: when reading the body for buffering fails, Do returns a nil response
\* with the read error at once: no send, no retry-condition call, no wait.
C16_ReadFailureAborts ==
    (pc = "done" /\ exit = "buffer")
        => /\ ret = NilResult(ReadErr)
           /\ sends = 0
           /\ condCalls = 0
           /\ waits = <<>>
           /\ attempt = 0

\* a non-empty body without GetBody whose read failed
C16_Witness ==
    /\ pc = "done"
    /\ exit = "buffer"
    /\ ~origBody.nil
    /\ Len(origBody.data) > 0
    /\ req.GetBody = "nil"
    /\ ret.err = ReadErr

\* The pair o holds exactly one of a response and an error.
ExactlyOneOf(o) == (o.resp = NilResp) # (o.err = NilErr)

\* C19: when the last send gave exactly one of (response, error), what Do
\* returns has exactly one of them non-nil, except that the last response comes
\* with ErrMaxRetriesExceeded once the budget is exhausted; Do never returns
\* (nil, nil).
C19_ExactlyOnePopulated ==
    (pc = "done" /\ (sends = 0 \/ ExactlyOneOf(lastOutcome)))
        => \/ ExactlyOneOf(ret)
           \/ /\ exit = "exhausted"
              /\ ret.err = ErrMaxRetriesExceeded
              /\ ret.resp # NilResp
              /\ ret.resp = lastOutcome.resp

\* a 200 discarded because the context was done when the attempt came back
C19_Witness ==
    /\ pc = "done"
    /\ exit = "cancelAfter"
    /\ lastOutcome.resp # NilResp
    /\ lastOutcome.err = NilErr
    /\ ret.resp = NilResp
    /\ ret.err \in CtxErrors

\* C15: DefaultRetryCondition(resp, err) answers true exactly when err is
\* non-nil, or resp is non-nil with a status in 400..499; it answers (false) on
\* (nil, nil) and answers on a pair with both non-nil.
C15_DefaultRetryConditionExact ==
    /\ pc = "cond" => ENABLED Decide
    /\ condCalls = 1 =>
          ((condTrue = 1) <=> (err # NilErr \/ (resp # NilResp /\ resp.status \in 400..499)))

\* (nil, nil) was put to the condition and declared final
C15_Witness ==
    /\ condCalls = 1
    /\ resp = NilResp
    /\ err = NilErr
    /\ condTrue = 0
    /\ exit = "final"

\* C17 as stated: before every attempt after the first of a request that
\* carries a GetBody, Do has invoked it once per retry; when the invocation
\* fails Do returns a nil response with that error, with no send for that
\* attempt, no retry-condition call on it and no further attempt.
C17_ReplayBeforeEveryRetry ==
    /\ (pc = "inflight" /\ req.GetBody # "nil") => getBodyCalls = attempt
    /\ (pc = "done" /\ exit = "replay")
          => /\ ret = NilResult(GetBodyErr)
             /\ getBodyCalls = attempt
             /\ sends = attempt
             /\ condCalls = attempt

\* C17 amended: the same for a request that carries a GetBody and a non-nil
\* body; with a nil body GetBody is never invoked.
C17_ReplayBeforeEveryRetryWithBody ==
    /\ (pc = "inflight" /\ req.GetBody # "nil" /\ ~req.Body.nil) => getBodyCalls = attempt
    /\ (pc = "inflight" /\ req.GetBody # "nil" /\ req.Body.nil) => getBodyCalls = 0
    /\ (pc = "done" /\ exit = "replay")
          => /\ ret = NilResult(GetBodyErr)
             /\ getBodyCalls = attempt
             /\ sends = attempt
             /\ condCalls = attempt

\* the caller's GetBody served the first retry and failed before the second
C17_Witness ==
    /\ pc = "done"
    /\ exit = "replay"
    /\ attempt = 2
    /\ getBodyCalls = 2
    /\ sends = 2
    /\ ret = NilResult(GetBodyErr)

\* C20: a call of CloseIdleConnections calls CloseIdleConnections on the
\* client's transport (http.DefaultTransport when Transport is nil) exactly
\* when that transport has the method, and does nothing otherwise; it sends no
\* request and leaves the Client as it was.
C20_CloseIdleDelegates ==
    [][idle'.calls = idle.calls + 1
          => /\ c' = c
             /\ sends' = sends
             /\ pc' = pc
             /\ idle'.delegated =
                   CASE c.client.Transport = "nil" ->
                            Append(idle.delegated, "http.DefaultTransport")
                     [] c.client.Transport = "*http.Transport" ->
                            Append(idle.delegated, "*http.Transport")
                     [] OTHER -> idle.delegated]_vars

\* two calls on a Client over http.DefaultClient reached http.DefaultTransport
C20_Witness ==
    /\ c.client.Transport = "nil"
    /\ idle.calls = 2
    /\ idle.delegated = <<"http.DefaultTransport", "http.DefaultTransport">>

\* C18: with two calls of Do running on one Client, each on its own request, no
\* step of either call changes a field of the Client; a step of one call leaves
\* the other's position, attempt counter, backoff, sends, waits and result as
\* they were; and the first wait of each call lasts the Client's initialBackoff.
C18_CallsDoNotInterfere ==
    [][/\ c' = c
       /\ peer' # peer =>
             UNCHANGED <<pc, attempt, backoff, resp, err, ret, exit, sends, waits, req>>
       /\ <<pc, attempt, backoff, sends, waits>>' # <<pc, attempt, backoff, sends, waits>>
             => peer' = peer
       /\ (waits = <<>> /\ waits' # <<>>) => waits'[1] = c.initialBackoff
       /\ (peer.waits = <<>> /\ peer'.waits # <<>>) => peer'.waits[1] = c.initialBackoff
       /\ (pc = "wait" /\ pc' = "loop") => backoff' = NextBackoff(backoff)
       /\ (peer.pc = "wait" /\ peer'.pc = "loop") => peer'.backoff = NextBackoff(peer.backoff)]_vars

\* both calls ran to their end, each having waited twice on the same growing
\* schedule, while the other was running
C18_Witness ==
    /\ pc = "done" /\ peer.pc = "done"
    /\ Len(waits) = 2 /\ peer.waits = waits
    /\ waits[1] = c.initialBackoff /\ waits[2] > waits[1]
    /\ sends = 3 /\ peer.sends = 3

\* C21: a wait begins only when an attempt is left to make: after the attempt
\* that uses up the budget Do waits no more, so the waits of a call number at
\* most its sends minus one, and none happens when maxRetries is 0.
C21_NoWaitAfterLastAttempt ==
    /\ pc = "wait" => attempt < c.maxRetries
    /\ (pc = "done" /\ sends > 0) => Len(waits) <= sends - 1
    /\ c.maxRetries = 0 => waits = <<>>

Min2(a, b) == IF a <= b THEN a ELSE b

RECURSIVE Pow(_, _)
Pow(b, e) == IF e = 0 THEN 1 ELSE b * Pow(b, e - 1)

\* C22 as stated, on a Client with backoffMultiplier >= 1 and maxBackoff >=
\* initialBackoff: no wait precedes the first attempt, the first wait lasts
\* initialBackoff, and after a wait of d the next one lasts exactly
\* min(d x backoffMultiplier, maxBackoff).
C22_ScheduleExactProduct ==
    (c.backoffMultiplier >= MultDen /\ c.maxBackoff >= c.initialBackoff)
        => /\ Len(waits) <= sends
           /\ waits # <<>> => waits[1] = c.initialBackoff
           /\ \A i \in 2..Len(waits) :
                 MultDen * waits[i] =
                     Min2(waits[i - 1] * c.backoffMultiplier, MultDen * c.maxBackoff)

\* C22: no wait precedes the first attempt, the first wait lasts
\* initialBackoff, and after a wait of d the next one lasts
\* min(d x backoffMultiplier cut down to a whole nanosecond, maxBackoff); with a
\* whole multiplier m >= 1 and initialBackoff <= maxBackoff the k-th wait lasts
\* min(initialBackoff x m^(k-1), maxBackoff).
C22_ScheduleTruncatedProduct ==
    /\ Len(waits) <= sends
    /\ waits # <<>> => waits[1] = c.initialBackoff
    /\ \A i \in 2..Len(waits) :
          waits[i] = Min2((waits[i - 1] * c.backoffMultiplier) \div MultDen, c.maxBackoff)
    /\ (/\ c.backoffMultiplier % MultDen = 0
        /\ c.backoffMultiplier >= MultDen
        /\ c.initialBackoff <= c.maxBackoff)
          => \A k \in 1..Len(waits) :
                waits[k] = Min2(c.initialBackoff * Pow(c.backoffMultiplier \div MultDen, k - 1),
                                c.maxBackoff)

\* multiplier 1.5 on a backoff of 1ns under a ceiling of 2ns: the second wait
\* lasts 1ns, not 1.5ns
C22_Witness ==
    /\ c.backoffMultiplier = 3
    /\ c.maxBackoff = 2
    /\ Len(waits) >= 2
    /\ waits[1] = 1
    /\ waits[2] = 1

\* C23: while the send of attempt n+1 is under way, attempt n's outcome has
\* passed the cancellation check (the context was not done by then) and the
\* retry condition, which flagged it; its response, when not nil, has its body
\* closed; and the wait after it has elapsed.
C23_AttemptsSequential ==
    (pc = "inflight" /\ sends >= 2)
        => /\ ctxErr # NilErr => cancelPc \in {"replay", "inflight"}
           /\ condCalls = sends - 1
           /\ condTrue = sends - 1
           /\ Len(closed) = sends - 1
           /\ lastOutcome.resp # NilResp => closed[sends - 1]
           /\ Len(waits) = sends - 1
           /\ attempt = sends - 1

\* the third send under way after two responses that were flagged and closed
C23_Witness ==
    /\ pc = "inflight"
    /\ sends = 3
    /\ closed = <<TRUE, TRUE>>
    /\ Len(waits) = 2
    /\ lastOutcome.resp # NilResp

\* C24: when Do has returned, the last response the transport handed back, if
\* not nil, is the response Do returned or has had its body closed by Do.
C24_NoResponseLeaked ==
    (pc = "done" /\ lastOutcome.resp # NilResp)
        => \/ ret.resp = lastOutcome.resp
           \/ closed[lastOutcome.resp.id]

\* C25: every call of Do reaches a return, after at most maxRetries+1 sends and
\* at most maxRetries+1 waits, whatever the retry condition answers.
C25_DoTerminates ==
    /\ <>(pc = "done")
    /\ [](sends <= c.maxRetries + 1 /\ Len(waits) <= c.maxRetries + 1)

\* a condition that flagged every outcome: three sends, three waits, and Do
\* returned from below its loop
C25_Witness ==
    /\ pc = "done"
    /\ exit = "exhausted"
    /\ c.retryCondition = "custom"
    /\ c.maxRetries = 2
    /\ condTrue = 3
    /\ sends = 3
    /\ Len(waits) = 3

=============================================================================
